---- MODULE Spec2Model ----
(***************************************************************************)
(* Calendar service: the event and event_student tables, the HTTP          *)
(* handlers that write them and the student assignment resolver            *)
(* (assignStudentsToEvent).  Every handler is cut at its awaits: one       *)
(* action is one store round trip together with the synchronous code that  *)
(* follows it, so requests interleave exactly where the code suspends.     *)
(***************************************************************************)
EXTENDS Integers, Sequences, FiniteSets, TLC

(***************************************************************************)
(* Bounds                                                                  *)
(***************************************************************************)
NumReq == 2
MaxEventId == 3
MaxEsId == 4

Req == 1..NumReq

(***************************************************************************)
(* JavaScript values of the request bodies and of the stored columns       *)
(***************************************************************************)
Undef == [t |-> "undefined"]
Null == [t |-> "null"]
Bool(b) == [t |-> "boolean", v |-> b]
Num(n) == [t |-> "number", v |-> n]
Str(s) == [t |-> "string", v |-> s]
Arr(s) == [t |-> "array", v |-> s]

Truthy(x) ==
    CASE x.t = "undefined" -> FALSE
      [] x.t = "null" -> FALSE
      [] x.t = "boolean" -> x.v
      [] x.t = "number" -> x.v # 0
      [] x.t = "string" -> x.v # ""
      [] OTHER -> TRUE

\* a || b
Or(a, b) == IF Truthy(a) THEN a ELSE b

\* what the store keeps for a column the insert did not mention
Stored(x) == IF x.t = "undefined" THEN Null ELSE x

NoRow == [none |-> TRUE]

(***************************************************************************)
(* Validators                                                              *)
(***************************************************************************)
DateOk1 == "2025-07-29T16:15:15.000Z"
DateOk2 == "2025-07-30T10:00:00.000Z"
DateBad == "2025-07-29 16:15:15+00"

dateTimeRegex(x) == x.t = "string" /\ x.v \in {DateOk1, DateOk2}

allowedTypes == {"follow-up", "kick-off", "keynote", "hub-talk", "other"}

Creator == "06f5fc8f-b654-4571-a1c4-131491b7b8d9"
Student1 == "11111111-1111-4111-8111-111111111111"
Student2 == "22222222-2222-4222-8222-222222222222"
BadUuid == "badidformat123"

uuidRegex(s) == s \in {Creator, Student1, Student2}

isPositiveInteger(x) == x.t = "number" /\ x.v > 0

(***************************************************************************)
(* Profile service (external): rosters are fixed, calls may fail           *)
(***************************************************************************)
Promotions == {"p1", "p2"}
Profiles == {"pf2"}

\* /students/active answers user-profile records carrying id_user;
\* /students/promotion/:id answers student records, some of which only
\* carry id_user_profile
Rec1 == [id_user |-> Student1, id_user_profile |-> ""]
Rec2 == [id_user |-> "", id_user_profile |-> "pf2"]

ActiveRoster == <<Rec1, [id_user |-> Student2, id_user_profile |-> ""]>>

\* "p1" and "p2" share a student; any other promotion has no student
PromotionRoster(p) ==
    IF p = "p1" THEN <<Rec1>>
    ELSE IF p = "p2" THEN <<Rec1, Rec2>>
    ELSE <<>>

ProfileData(pf) == [id_user |-> Student2]

\* the outcome of one profile-service call: the roster, or nothing when the
\* call fails (network error, non-200 status, malformed JSON)
getAllActiveStudents(failed) == IF failed THEN <<>> ELSE ActiveRoster

getStudentsByPromotion(p, failedCohorts) ==
    IF p \in failedCohorts THEN <<>> ELSE PromotionRoster(p)

getProfileById(pf, failedProfiles) ==
    IF pf \in failedProfiles THEN "" ELSE ProfileData(pf).id_user

(***************************************************************************)
(* Store                                                                   *)
(***************************************************************************)
VARIABLES event, event_student, nextEventId, nextEsId, req

vars == <<event, event_student, nextEventId, nextEsId, req>>

\* .single(): exactly one row or the error PGRST116; any other error when
\* the store call fails
single(rows, fault) ==
    IF fault THEN [rows |-> {}, error |-> "FAIL"]
    ELSE IF Cardinality(rows) = 1 THEN [rows |-> rows, error |-> "none"]
    ELSE [rows |-> {}, error |-> "PGRST116"]

\* .maybeSingle(): no row is not an error, several rows are
maybeSingle(rows, fault) ==
    IF fault THEN [rows |-> {}, error |-> "FAIL"]
    ELSE IF Cardinality(rows) <= 1 THEN [rows |-> rows, error |-> "none"]
    ELSE [rows |-> {}, error |-> "PGRST116"]

TheRow(rows) == CHOOSE x \in rows : TRUE

Idle ==
    [op |-> "idle", pc |-> "idle", id |-> 0, body |-> NoRow, data |-> NoRow,
     students |-> <<>>, i |-> 0, pending |-> <<>>, status |-> 0,
     wrote |-> {}, logged |-> {}, prev |-> NoRow]

Free(r) == req[r].pc \in {"idle", "done"}

Respond(rec, code, data) ==
    [rec EXCEPT !.pc = "done", !.status = code, !.data = data,
                !.i = 0, !.pending = <<>>]

Init ==
    /\ event = {}
    /\ event_student = {}
    /\ nextEventId = 1
    /\ nextEsId = 1
    /\ req = [r \in Req |-> Idle]

(***************************************************************************)
(* Assignment resolver: assignStudentsToEvent                              *)
(***************************************************************************)
\* a loop that gives up at the first roster that cannot be fetched
RECURSIVE concatRosters_StopAtFailure(_, _)
concatRosters_StopAtFailure(list, failedCohorts) ==
    IF list = <<>> \/ Head(list) \in failedCohorts THEN <<>>
    ELSE getStudentsByPromotion(Head(list), failedCohorts)
             \o concatRosters_StopAtFailure(Tail(list), failedCohorts)

RECURSIVE concatRosters(_, _)
concatRosters(list, failedCohorts) ==
    IF list = <<>> THEN <<>>
    ELSE getStudentsByPromotion(Head(list), failedCohorts)
             \o concatRosters(Tail(list), failedCohorts)

\* which branch of the resolver a target_promotions value takes
isAllStudents(tp) ==
    tp.t \in {"null", "undefined"} \/ (tp.t = "array" /\ Len(tp.v) = 0)

isPromotionList(tp) ==
    ~isAllStudents(tp) /\ Truthy(tp) /\ tp.t \in {"array", "string"}

\* a non-empty string passes the length test and then has no join(): the
\* TypeError is caught by the resolver's outer try
throwsTypeError(tp) == isPromotionList(tp) /\ tp.t = "string"

fetchStudents(tp, failedActive, failedCohorts) ==
    IF isAllStudents(tp) THEN getAllActiveStudents(failedActive)
    ELSE IF isPromotionList(tp) /\ ~throwsTypeError(tp)
         THEN concatRosters(tp.v, failedCohorts)
    ELSE <<>>

studentUuid(student, failedProfiles) ==
    IF student.id_user # "" THEN student.id_user
    ELSE IF student.id_user_profile # ""
         THEN getProfileById(student.id_user_profile, failedProfiles)
    ELSE ""

RECURSIVE studentEventInserts(_, _)
studentEventInserts(students, failedProfiles) ==
    IF students = <<>> THEN <<>>
    ELSE LET u == studentUuid(Head(students), failedProfiles)
         IN (IF u # "" THEN <<u>> ELSE <<>>)
                \o studentEventInserts(Tail(students), failedProfiles)

\* what one run writes with console.error before it touches the store: the
\* kind of failure and, for a failed roster, its promotion
fetchLogged(tp, failedActive, failedCohorts, failedProfiles) ==
    (IF throwsTypeError(tp) THEN {"exception"} ELSE {})
    \cup (IF \/ isAllStudents(tp) /\ failedActive
             \/ /\ isPromotionList(tp) /\ tp.t = "array"
                /\ \E k \in 1..Len(tp.v) : tp.v[k] \in failedCohorts
          THEN {"fetch"} ELSE {})
    \cup (IF isPromotionList(tp) /\ tp.t = "array"
          THEN {tp.v[k] : k \in 1..Len(tp.v)} \cap failedCohorts ELSE {})
    \cup (LET st == fetchStudents(tp, failedActive, failedCohorts)
          IN IF Len(studentEventInserts(st, failedProfiles)) < Len(st)
             THEN {"identity"} ELSE {})

\* a resolver whose logged failures reach the caller
Return_Propagate(rec) ==
    IF rec.logged # {} THEN Respond(rec, 500, NoRow)
    ELSE IF rec.op = "POST /events" THEN Respond(rec, 201, rec.data)
    ELSE IF rec.op = "PATCH /events/:id" THEN Respond(rec, 200, rec.data)
    ELSE Respond(rec, 0, rec.data)

\* the resolver returns to its caller, which answers the request
Return(rec) ==
    IF rec.op = "POST /events" THEN Respond(rec, 201, rec.data)
    ELSE IF rec.op = "PATCH /events/:id" THEN Respond(rec, 200, rec.data)
    ELSE Respond(rec, 0, rec.data)

assignStudentsToEvent_Fetch(r, failedActive, failedCohorts, failedProfiles) ==
    /\ req[r].pc = "assign"
    /\ LET tp == req[r].body.target_promotions
           st == fetchStudents(tp, failedActive, failedCohorts)
           ins == studentEventInserts(st, failedProfiles)
           lg == req[r].logged
                   \cup fetchLogged(tp, failedActive, failedCohorts, failedProfiles)
           rec == [req[r] EXCEPT !.students = ins, !.logged = lg]
       IN req' = [req EXCEPT ![r] =
                    IF Len(ins) = 0 THEN Return(rec)
                    ELSE [rec EXCEPT !.pc = "dedup", !.i = 1, !.pending = <<>>]]
    /\ UNCHANGED <<event, event_student, nextEventId, nextEsId>>

assignStudentsToEvent_Check(r, fault) ==
    /\ req[r].pc = "dedup"
    /\ LET rec == req[r]
           s == rec.students[rec.i]
           existing == single({x \in event_student :
                                 x.id_student = s /\ x.id_event = rec.data.id},
                              fault)
           pend == IF existing.rows # {} THEN rec.pending
                   ELSE Append(rec.pending, s)
       IN req' = [req EXCEPT ![r] =
                    IF rec.i < Len(rec.students)
                    THEN [rec EXCEPT !.i = rec.i + 1, !.pending = pend]
                    ELSE IF pend = <<>> THEN Return(rec)
                    ELSE [rec EXCEPT !.pc = "bulk", !.pending = pend]]
    /\ UNCHANGED <<event, event_student, nextEventId, nextEsId>>

assignStudentsToEvent_Insert(r, fault) ==
    /\ req[r].pc = "bulk"
    /\ LET rec == req[r]
           n == Len(rec.pending)
       IN IF fault
          THEN /\ req' = [req EXCEPT ![r] = Return([rec EXCEPT !.logged = @ \cup {"insert"}])]
               /\ UNCHANGED <<event_student, nextEsId>>
          ELSE /\ nextEsId + n - 1 <= MaxEsId
               /\ event_student' = event_student \cup
                     {[id |-> nextEsId + k - 1,
                       id_event |-> rec.data.id,
                       id_student |-> rec.pending[k]] : k \in 1..n}
               /\ nextEsId' = nextEsId + n
               /\ req' = [req EXCEPT ![r] =
                            Return([rec EXCEPT !.wrote = @ \cup {"event_student"}])]
    /\ UNCHANGED <<event, nextEventId>>

(***************************************************************************)
(* POST /events                                                            *)
(***************************************************************************)
createValidation(b) ==
    IF \/ ~Truthy(b.title) \/ ~Truthy(b.event_datetime)
       \/ ~Truthy(b.duration_minutes) \/ ~Truthy(b.event_type)
       \/ ~Truthy(b.id_creator)
    THEN 400
    ELSE IF ~dateTimeRegex(b.event_datetime) THEN 400
    ELSE IF ~isPositiveInteger(b.duration_minutes) THEN 400
    ELSE IF ~(b.event_type.t = "string" /\ b.event_type.v \in allowedTypes) THEN 400
    ELSE IF ~(b.id_creator.t = "string" /\ uuidRegex(b.id_creator.v)) THEN 400
    ELSE 0

sameTuple(e, b) ==
    /\ e.title = b.title
    /\ e.event_datetime = b.event_datetime
    /\ e.event_type = b.event_type
    /\ e.id_creator = b.id_creator

\* an insert that passes the optional columns through as submitted
eventRow_AsSubmitted(id, b) ==
    [id |-> id,
     title |-> b.title,
     event_datetime |-> b.event_datetime,
     duration_minutes |-> b.duration_minutes,
     event_type |-> b.event_type,
     id_creator |-> b.id_creator,
     location |-> Stored(b.location),
     slot_duration |-> Stored(b.slot_duration),
     allow_multiple_users |-> Stored(b.allow_multiple_users),
     target_promotions |-> Stored(b.target_promotions),
     slots |-> Stored(b.slots)]

eventRow(id, b) ==
    [id |-> id,
     title |-> b.title,
     event_datetime |-> b.event_datetime,
     duration_minutes |-> b.duration_minutes,
     event_type |-> b.event_type,
     id_creator |-> b.id_creator,
     location |-> Or(b.location, Null),
     slot_duration |-> Or(b.slot_duration, Num(30)),
     allow_multiple_users |-> Or(b.allow_multiple_users, Bool(FALSE)),
     target_promotions |-> Stored(b.target_promotions),
     slots |-> Or(b.slots, Arr(<<>>))]

post_events_Check(r, b, fault) ==
    /\ Free(r)
    /\ LET rec == [Idle EXCEPT !.op = "POST /events", !.body = b]
           existingEvent == single({e \in event : sameTuple(e, b)}, fault)
       IN req' = [req EXCEPT ![r] =
                    IF createValidation(b) # 0 THEN Respond(rec, 400, NoRow)
                    ELSE IF existingEvent.error = "FAIL" THEN Respond(rec, 500, NoRow)
                    ELSE IF existingEvent.rows # {} THEN Respond(rec, 409, NoRow)
                    ELSE [rec EXCEPT !.pc = "insert"]]
    /\ UNCHANGED <<event, event_student, nextEventId, nextEsId>>

post_events_Insert(r, fault) ==
    /\ req[r].pc = "insert"
    /\ req[r].op = "POST /events"
    /\ IF fault
       THEN /\ req' = [req EXCEPT ![r] = Respond(req[r], 500, NoRow)]
            /\ UNCHANGED <<event, nextEventId>>
       ELSE /\ nextEventId <= MaxEventId
            /\ LET row == eventRow(nextEventId, req[r].body)
               IN /\ event' = event \cup {row}
                  /\ req' = [req EXCEPT ![r] =
                               [@ EXCEPT !.pc = "assign", !.data = row,
                                         !.wrote = @ \cup {"event"}]]
            /\ nextEventId' = nextEventId + 1
    /\ UNCHANGED <<event_student, nextEsId>>

(***************************************************************************)
(* GET /events/:id                                                         *)
(***************************************************************************)
get_events_id(r, id, fault) ==
    /\ Free(r)
    /\ LET rec == [Idle EXCEPT !.op = "GET /events/:id", !.id = id]
           res == single({e \in event : e.id = id}, fault)
       IN req' = [req EXCEPT ![r] =
                    IF res.error = "PGRST116" THEN Respond(rec, 404, NoRow)
                    ELSE IF res.error = "FAIL" THEN Respond(rec, 500, NoRow)
                    ELSE Respond(rec, 200, TheRow(res.rows))]
    /\ UNCHANGED <<event, event_student, nextEventId, nextEsId>>

(***************************************************************************)
(* PATCH /events/:id                                                       *)
(***************************************************************************)
\* fields copied into updateData when truthy, and when not undefined
truthyFields == {"title", "event_datetime", "duration_minutes", "event_type"}
definedFields == {"location", "slot_duration", "allow_multiple_users",
                  "target_promotions", "slots"}

inUpdateData(b, f) ==
    IF f \in truthyFields THEN Truthy(b[f])
    ELSE IF f \in definedFields THEN b[f].t # "undefined"
    ELSE FALSE

noFieldProvided(b) == \A f \in truthyFields \cup definedFields : ~inUpdateData(b, f)

\* the field checks that follow the title lookup
updateValidation(b) ==
    IF Truthy(b.event_datetime) /\ ~dateTimeRegex(b.event_datetime) THEN 400
    ELSE IF Truthy(b.duration_minutes) /\ ~isPositiveInteger(b.duration_minutes)
         THEN 400
    ELSE IF Truthy(b.event_type)
            /\ ~(b.event_type.t = "string" /\ b.event_type.v \in allowedTypes)
         THEN 400
    ELSE IF b.slot_duration.t # "undefined" /\ ~isPositiveInteger(b.slot_duration)
         THEN 400
    ELSE 0

\* an update that writes every column of the body, sent or not
applyUpdate_AllColumns(e, b) ==
    [f \in DOMAIN e |-> IF f \in DOMAIN b THEN Stored(b[f]) ELSE e[f]]

applyUpdate(e, b) ==
    [f \in DOMAIN e |-> IF inUpdateData(b, f) THEN b[f] ELSE e[f]]

\* an update that never looks the title up
patch_events_Check_NoLookup(r, id, b, fault) ==
    /\ Free(r)
    /\ LET rec == [Idle EXCEPT !.op = "PATCH /events/:id", !.id = id, !.body = b]
       IN req' = [req EXCEPT ![r] =
                    IF noFieldProvided(b) THEN Respond(rec, 400, NoRow)
                    ELSE IF updateValidation(b) # 0 THEN Respond(rec, 400, NoRow)
                    ELSE [rec EXCEPT !.pc = "update"]]
    /\ UNCHANGED <<event, event_student, nextEventId, nextEsId>>

patch_events_Check(r, id, b, fault) ==
    /\ Free(r)
    /\ LET rec == [Idle EXCEPT !.op = "PATCH /events/:id", !.id = id, !.body = b]
           existingEvent == single({e \in event : e.title = b.title /\ e.id # id},
                                   fault)
       IN req' = [req EXCEPT ![r] =
                    IF noFieldProvided(b) THEN Respond(rec, 400, NoRow)
                    ELSE IF Truthy(b.title) /\ existingEvent.error = "FAIL"
                         THEN Respond(rec, 500, NoRow)
                    ELSE IF Truthy(b.title) /\ existingEvent.rows # {}
                         THEN Respond(rec, 409, NoRow)
                    ELSE IF updateValidation(b) # 0 THEN Respond(rec, 400, NoRow)
                    ELSE [rec EXCEPT !.pc = "update"]]
    /\ UNCHANGED <<event, event_student, nextEventId, nextEsId>>

\* the reassignment only for a non-empty list of promotions
patch_events_Update_NonEmptyOnly(r, fault) ==
    /\ req[r].pc = "update"
    /\ req[r].op = "PATCH /events/:id"
    /\ LET rec == req[r]
           res == single({e \in event : e.id = rec.id}, fault)
       IN IF res.error = "PGRST116"
          THEN /\ req' = [req EXCEPT ![r] = Respond(rec, 404, NoRow)]
               /\ UNCHANGED event
          ELSE IF res.error = "FAIL"
          THEN /\ req' = [req EXCEPT ![r] = Respond(rec, 500, NoRow)]
               /\ UNCHANGED event
          ELSE LET old == TheRow(res.rows)
                   row == applyUpdate(old, rec.body)
                   upd == [rec EXCEPT !.data = row, !.wrote = @ \cup {"event"}]
                   tp == rec.body.target_promotions
               IN /\ event' = (event \ {old}) \cup {row}
                  /\ req' = [req EXCEPT ![r] =
                               IF tp.t = "array" /\ Len(tp.v) > 0
                               THEN [upd EXCEPT !.pc = "delold"]
                               ELSE Respond(upd, 200, row)]
    /\ UNCHANGED <<event_student, nextEventId, nextEsId>>

patch_events_Update(r, fault) ==
    /\ req[r].pc = "update"
    /\ req[r].op = "PATCH /events/:id"
    /\ LET rec == req[r]
           res == single({e \in event : e.id = rec.id}, fault)
       IN IF res.error = "PGRST116"
          THEN /\ req' = [req EXCEPT ![r] = Respond(rec, 404, NoRow)]
               /\ UNCHANGED event
          ELSE IF res.error = "FAIL"
          THEN /\ req' = [req EXCEPT ![r] = Respond(rec, 500, NoRow)]
               /\ UNCHANGED event
          ELSE LET old == TheRow(res.rows)
                   row == applyUpdate(old, rec.body)
                   upd == [rec EXCEPT !.data = row, !.wrote = @ \cup {"event"}]
               IN /\ event' = (event \ {old}) \cup {row}
                  /\ req' = [req EXCEPT ![r] =
                               IF rec.body.target_promotions.t # "undefined"
                               THEN [upd EXCEPT !.pc = "delold"]
                               ELSE Respond(upd, 200, row)]
    /\ UNCHANGED <<event_student, nextEventId, nextEsId>>

patch_events_DeleteOld(r, fault) ==
    /\ req[r].pc = "delold"
    /\ LET rec == req[r]
       IN IF fault
          THEN /\ req' = [req EXCEPT ![r] =
                            [rec EXCEPT !.pc = "assign",
                                        !.logged = @ \cup {"delete"}]]
               /\ UNCHANGED event_student
          ELSE /\ event_student' = {x \in event_student : x.id_event # rec.data.id}
               /\ req' = [req EXCEPT ![r] =
                            [rec EXCEPT !.pc = "assign",
                                        !.wrote = @ \cup {"event_student"}]]
    /\ UNCHANGED <<event, nextEventId, nextEsId>>

(***************************************************************************)
(* DELETE /events/:id                                                      *)
(***************************************************************************)
\* parseInt(id, 10) of the path parameter; NaN for a non-numeric one
isNaN(param) == param.t # "number"

\* a handler that issues the cleanup with the parsed parameter before it
\* looks at the result of the parse
delete_events_Students_ParseLate(r, param, fault) ==
    /\ Free(r)
    /\ LET rec == [Idle EXCEPT !.op = "DELETE /events/:id",
                               !.id = IF isNaN(param) THEN 0 ELSE param.v,
                               !.wrote = {"event_student"}]
       IN /\ event_student' = {x \in event_student : x.id_event # rec.id}
          /\ req' = [req EXCEPT ![r] = IF isNaN(param) THEN Respond(rec, 400, NoRow)
                                       ELSE [rec EXCEPT !.pc = "delevent"]]
    /\ UNCHANGED <<event, nextEventId, nextEsId>>

\* a handler that logs a failed cleanup and goes on to the event row
delete_events_Students_LogOnly(r, param, fault) ==
    /\ Free(r)
    /\ LET rec == [Idle EXCEPT !.op = "DELETE /events/:id",
                               !.id = IF isNaN(param) THEN 0 ELSE param.v]
       IN IF isNaN(param)
          THEN /\ req' = [req EXCEPT ![r] = Respond(rec, 400, NoRow)]
               /\ UNCHANGED event_student
          ELSE IF fault
          THEN /\ req' = [req EXCEPT ![r] = [rec EXCEPT !.pc = "delevent"]]
               /\ UNCHANGED event_student
          ELSE /\ event_student' = {x \in event_student : x.id_event # rec.id}
               /\ req' = [req EXCEPT ![r] =
                            [rec EXCEPT !.pc = "delevent",
                                        !.wrote = @ \cup {"event_student"}]]
    /\ UNCHANGED <<event, nextEventId, nextEsId>>

\* a handler that goes straight to the event row
delete_events_Students_EventOnly(r, param, fault) ==
    /\ Free(r)
    /\ LET rec == [Idle EXCEPT !.op = "DELETE /events/:id",
                               !.id = IF isNaN(param) THEN 0 ELSE param.v]
       IN req' = [req EXCEPT ![r] = IF isNaN(param) THEN Respond(rec, 400, NoRow)
                                    ELSE [rec EXCEPT !.pc = "delevent"]]
    /\ UNCHANGED <<event, event_student, nextEventId, nextEsId>>

delete_events_Students(r, param, fault) ==
    /\ Free(r)
    /\ LET rec == [Idle EXCEPT !.op = "DELETE /events/:id",
                               !.id = IF isNaN(param) THEN 0 ELSE param.v]
       IN IF isNaN(param)
          THEN /\ req' = [req EXCEPT ![r] = Respond(rec, 400, NoRow)]
               /\ UNCHANGED event_student
          ELSE IF fault
          THEN /\ req' = [req EXCEPT ![r] = Respond(rec, 500, NoRow)]
               /\ UNCHANGED event_student
          ELSE /\ event_student' = {x \in event_student : x.id_event # rec.id}
               /\ req' = [req EXCEPT ![r] =
                            [rec EXCEPT !.pc = "delevent",
                                        !.wrote = @ \cup {"event_student"}]]
    /\ UNCHANGED <<event, nextEventId, nextEsId>>

\* a handler that reports success whether or not a row was deleted
delete_events_Event_AlwaysOk(r, fault) ==
    /\ req[r].pc = "delevent"
    /\ LET rec == req[r]
           res == single({e \in event : e.id = rec.id}, fault)
       IN IF res.error = "FAIL"
          THEN /\ req' = [req EXCEPT ![r] = Respond(rec, 500, NoRow)]
               /\ UNCHANGED event
          ELSE /\ event' = event \ res.rows
               /\ req' = [req EXCEPT ![r] =
                            Respond([rec EXCEPT !.wrote = @ \cup {"event"}],
                                    200, NoRow)]
    /\ UNCHANGED <<event_student, nextEventId, nextEsId>>

delete_events_Event(r, fault) ==
    /\ req[r].pc = "delevent"
    /\ LET rec == req[r]
           res == single({e \in event : e.id = rec.id}, fault)
       IN IF res.error = "PGRST116"
          THEN /\ req' = [req EXCEPT ![r] = Respond(rec, 404, NoRow)]
               /\ UNCHANGED event
          ELSE IF res.error = "FAIL"
          THEN /\ req' = [req EXCEPT ![r] = Respond(rec, 500, NoRow)]
               /\ UNCHANGED event
          ELSE /\ event' = event \ res.rows
               /\ req' = [req EXCEPT ![r] =
                            Respond([rec EXCEPT !.wrote = @ \cup {"event"}],
                                    200, TheRow(res.rows))]
    /\ UNCHANGED <<event_student, nextEventId, nextEsId>>

(***************************************************************************)
(* POST /event-students                                                    *)
(***************************************************************************)
post_event_students_Check(r, b, fault) ==
    /\ Free(r)
    /\ LET rec == [Idle EXCEPT !.op = "POST /event-students", !.body = b]
           existingEvent == single({x \in event_student :
                                      /\ x.id_event = b.id_event
                                      /\ x.id_student = b.id_student}, fault)
       IN req' = [req EXCEPT ![r] =
                    IF b.id_student = "" \/ b.id_event = 0
                    THEN Respond(rec, 400, NoRow)
                    ELSE IF ~uuidRegex(b.id_student) THEN Respond(rec, 400, NoRow)
                    ELSE IF existingEvent.error = "FAIL" THEN Respond(rec, 500, NoRow)
                    ELSE IF existingEvent.rows # {} THEN Respond(rec, 409, NoRow)
                    ELSE [rec EXCEPT !.pc = "insert"]]
    /\ UNCHANGED <<event, event_student, nextEventId, nextEsId>>

post_event_students_Insert(r, fault) ==
    /\ req[r].pc = "insert"
    /\ req[r].op = "POST /event-students"
    /\ IF fault
       THEN /\ req' = [req EXCEPT ![r] = Respond(req[r], 500, NoRow)]
            /\ UNCHANGED <<event_student, nextEsId>>
       ELSE /\ nextEsId <= MaxEsId
            /\ LET row == [id |-> nextEsId,
                           id_event |-> req[r].body.id_event,
                           id_student |-> req[r].body.id_student]
               IN /\ event_student' = event_student \cup {row}
                  /\ req' = [req EXCEPT ![r] =
                               Respond([@ EXCEPT !.wrote = @ \cup {"event_student"}],
                                       201, row)]
            /\ nextEsId' = nextEsId + 1
    /\ UNCHANGED <<event, nextEventId>>

(***************************************************************************)
(* PATCH /event-students/:id                                               *)
(***************************************************************************)
patch_event_students_Event(r, id, b, fault) ==
    /\ Free(r)
    /\ LET rec == [Idle EXCEPT !.op = "PATCH /event-students/:id",
                               !.id = id, !.body = b]
           ev == single({e \in event : e.id = b.id_event}, fault)
       IN req' = [req EXCEPT ![r] =
                    IF b.id_student = "" /\ b.id_event = 0
                    THEN Respond(rec, 400, NoRow)
                    ELSE IF b.id_student # "" /\ ~uuidRegex(b.id_student)
                         THEN Respond(rec, 400, NoRow)
                    ELSE IF b.id_event # 0 /\ ev.rows = {}
                         THEN Respond(rec, 404, NoRow)
                    ELSE [rec EXCEPT !.pc = "current"]]
    /\ UNCHANGED <<event, event_student, nextEventId, nextEsId>>

patch_event_students_Current(r, fault) ==
    /\ req[r].pc = "current"
    /\ LET rec == req[r]
           currentRow == single({x \in event_student : x.id = rec.id}, fault)
       IN req' = [req EXCEPT ![r] =
                    IF currentRow.rows = {} THEN Respond(rec, 404, NoRow)
                    ELSE [rec EXCEPT !.pc = "dup",
                                     !.data = TheRow(currentRow.rows)]]
    /\ UNCHANGED <<event, event_student, nextEventId, nextEsId>>

finalStudentId(rec) ==
    IF rec.body.id_student # "" THEN rec.body.id_student ELSE rec.data.id_student

finalEventId(rec) ==
    IF rec.body.id_event # 0 THEN rec.body.id_event ELSE rec.data.id_event

patch_event_students_Duplicate(r, fault) ==
    /\ req[r].pc = "dup"
    /\ LET rec == req[r]
           duplicate == maybeSingle({x \in event_student :
                                       /\ x.id_student = finalStudentId(rec)
                                       /\ x.id_event = finalEventId(rec)
                                       /\ x.id # rec.id}, fault)
       IN req' = [req EXCEPT ![r] =
                    IF duplicate.error # "none" THEN Respond(rec, 500, NoRow)
                    ELSE IF duplicate.rows # {} THEN Respond(rec, 409, NoRow)
                    ELSE [rec EXCEPT !.pc = "esupdate"]]
    /\ UNCHANGED <<event, event_student, nextEventId, nextEsId>>

patch_event_students_Update(r, fault) ==
    /\ req[r].pc = "esupdate"
    /\ LET rec == req[r]
           res == single({x \in event_student : x.id = rec.id}, fault)
       IN IF res.error # "none"
          THEN /\ req' = [req EXCEPT ![r] = Respond(rec, 500, NoRow)]
               /\ UNCHANGED event_student
          ELSE LET old == TheRow(res.rows)
                   row == [id |-> old.id,
                           id_event |-> IF rec.body.id_event # 0
                                        THEN rec.body.id_event ELSE old.id_event,
                           id_student |-> IF rec.body.id_student # ""
                                          THEN rec.body.id_student
                                          ELSE old.id_student]
               IN /\ event_student' = (event_student \ {old}) \cup {row}
                  /\ req' = [req EXCEPT ![r] =
                               Respond([rec EXCEPT !.wrote = @ \cup {"event_student"}],
                                       200, row)]
    /\ UNCHANGED <<event, nextEventId, nextEsId>>

(***************************************************************************)
(* POST /events/:eventId/slots/:slotIndex/register                         *)
(* DELETE /events/:eventId/slots/:slotIndex/unregister                     *)
(***************************************************************************)
slotRequest(op, eventId, slotIndex, id_student) ==
    [Idle EXCEPT !.op = op,
                 !.id = IF isNaN(eventId) THEN 0 ELSE eventId.v,
                 !.body = [id_student |-> id_student, slotIndex |-> slotIndex]]

\* !event.slots || !Array.isArray(event.slots) || slotIndexInt >= length
slotNotFound(ev, k) ==
    \/ ~Truthy(ev.slots)
    \/ ev.slots.t # "array"
    \/ k >= Len(ev.slots.v)

\* event.slots.findIndex(slot => slot.user === id_student) >= 0
hasSlot(ev, id_student) ==
    \E j \in 1..Len(ev.slots.v) : ev.slots.v[j].user = id_student

slotsResponse(rec) ==
    [event_id |-> rec.id,
     slot_index |-> rec.body.slotIndex.v,
     student_id |-> rec.body.id_student.v,
     updated_slots |-> Arr(rec.pending)]

\* a register that does not look at the slot's user
post_slots_register_Read_NoTakenCheck(r, eventId, slotIndex, id_student, fault) ==
    /\ Free(r)
    /\ LET rec == slotRequest("POST /events/:eventId/slots/:slotIndex/register",
                              eventId, slotIndex, id_student)
           res == single({e \in event : e.id = rec.id}, fault)
           ev == TheRow(res.rows)
           k == slotIndex.v
       IN req' = [req EXCEPT ![r] =
                    IF isNaN(eventId) \/ isNaN(slotIndex) THEN Respond(rec, 400, NoRow)
                    ELSE IF ~Truthy(id_student) THEN Respond(rec, 400, NoRow)
                    ELSE IF res.error # "none" THEN Respond(rec, 404, NoRow)
                    ELSE IF slotNotFound(ev, k) THEN Respond(rec, 404, NoRow)
                    ELSE IF k < 0
                         THEN Respond([rec EXCEPT !.logged = @ \cup {"exception"}],
                                      500, NoRow)
                    ELSE IF hasSlot(ev, id_student) THEN Respond(rec, 409, NoRow)
                    ELSE [rec EXCEPT !.pc = "regwrite",
                                     !.pending = [ev.slots.v EXCEPT ![k + 1] =
                                                    [@ EXCEPT !.user = id_student]]]]
    /\ UNCHANGED <<event, event_student, nextEventId, nextEsId>>

\* a register that does not look for another slot of the student
post_slots_register_Read_NoHolderCheck(r, eventId, slotIndex, id_student, fault) ==
    /\ Free(r)
    /\ LET rec == slotRequest("POST /events/:eventId/slots/:slotIndex/register",
                              eventId, slotIndex, id_student)
           res == single({e \in event : e.id = rec.id}, fault)
           ev == TheRow(res.rows)
           k == slotIndex.v
       IN req' = [req EXCEPT ![r] =
                    IF isNaN(eventId) \/ isNaN(slotIndex) THEN Respond(rec, 400, NoRow)
                    ELSE IF ~Truthy(id_student) THEN Respond(rec, 400, NoRow)
                    ELSE IF res.error # "none" THEN Respond(rec, 404, NoRow)
                    ELSE IF slotNotFound(ev, k) THEN Respond(rec, 404, NoRow)
                    ELSE IF k < 0
                         THEN Respond([rec EXCEPT !.logged = @ \cup {"exception"}],
                                      500, NoRow)
                    ELSE IF Truthy(ev.slots.v[k + 1].user) THEN Respond(rec, 409, NoRow)
                    ELSE [rec EXCEPT !.pc = "regwrite",
                                     !.pending = [ev.slots.v EXCEPT ![k + 1] =
                                                    [@ EXCEPT !.user = id_student]]]]
    /\ UNCHANGED <<event, event_student, nextEventId, nextEsId>>

\* validation, the read of the event and the checks on its slots; a negative
\* index passes the length test and event.slots[k].user throws, which the
\* handler's catch answers with 500
post_slots_register_Read(r, eventId, slotIndex, id_student, fault) ==
    /\ Free(r)
    /\ LET rec == slotRequest("POST /events/:eventId/slots/:slotIndex/register",
                              eventId, slotIndex, id_student)
           res == single({e \in event : e.id = rec.id}, fault)
           ev == TheRow(res.rows)
           k == slotIndex.v
       IN req' = [req EXCEPT ![r] =
                    IF isNaN(eventId) \/ isNaN(slotIndex) THEN Respond(rec, 400, NoRow)
                    ELSE IF ~Truthy(id_student) THEN Respond(rec, 400, NoRow)
                    ELSE IF res.error # "none" THEN Respond(rec, 404, NoRow)
                    ELSE IF slotNotFound(ev, k) THEN Respond(rec, 404, NoRow)
                    ELSE IF k < 0
                         THEN Respond([rec EXCEPT !.logged = @ \cup {"exception"}],
                                      500, NoRow)
                    ELSE IF Truthy(ev.slots.v[k + 1].user) THEN Respond(rec, 409, NoRow)
                    ELSE IF hasSlot(ev, id_student) THEN Respond(rec, 409, NoRow)
                    ELSE [rec EXCEPT !.pc = "regwrite",
                                     !.pending = [ev.slots.v EXCEPT ![k + 1] =
                                                    [@ EXCEPT !.user = id_student]]]]
    /\ UNCHANGED <<event, event_student, nextEventId, nextEsId>>

\* a write that is refused when the stored slot is no longer free
post_slots_register_Write_IfStillFree(r, fault) ==
    /\ req[r].pc = "regwrite"
    /\ LET rec == req[r]
           res == single({e \in event : e.id = rec.id}, fault)
           k == rec.body.slotIndex.v
       IN IF res.error # "none"
          THEN /\ req' = [req EXCEPT ![r] =
                            Respond([rec EXCEPT !.logged = @ \cup {"update"}],
                                    500, NoRow)]
               /\ UNCHANGED event
          ELSE IF Truthy(TheRow(res.rows).slots.v[k + 1].user)
          THEN /\ req' = [req EXCEPT ![r] = Respond(rec, 409, NoRow)]
               /\ UNCHANGED event
          ELSE /\ event' = (event \ res.rows) \cup
                              {[TheRow(res.rows) EXCEPT !.slots = Arr(rec.pending)]}
               /\ req' = [req EXCEPT ![r] =
                            Respond([rec EXCEPT !.wrote = @ \cup {"event"}],
                                    200, slotsResponse(rec))]
    /\ UNCHANGED <<event_student, nextEventId, nextEsId>>

\* update({ slots: updatedSlots }).eq("id", eventIdInt).select().single()
post_slots_register_Write(r, fault) ==
    /\ req[r].pc = "regwrite"
    /\ LET rec == req[r]
           res == single({e \in event : e.id = rec.id}, fault)
       IN IF res.error # "none"
          THEN /\ req' = [req EXCEPT ![r] =
                            Respond([rec EXCEPT !.logged = @ \cup {"update"}],
                                    500, NoRow)]
               /\ UNCHANGED event
          ELSE /\ event' = (event \ res.rows) \cup
                              {[TheRow(res.rows) EXCEPT !.slots = Arr(rec.pending)]}
               /\ req' = [req EXCEPT ![r] =
                            Respond([rec EXCEPT !.wrote = @ \cup {"event"}],
                                    200, slotsResponse(rec))]
    /\ UNCHANGED <<event_student, nextEventId, nextEsId>>

\* an unregister that does not compare the occupant with the requester
delete_slots_unregister_Read_AnyStudent(r, eventId, slotIndex, id_student, fault) ==
    /\ Free(r)
    /\ LET rec == slotRequest("DELETE /events/:eventId/slots/:slotIndex/unregister",
                              eventId, slotIndex, id_student)
           res == single({e \in event : e.id = rec.id}, fault)
           ev == TheRow(res.rows)
           k == slotIndex.v
       IN req' = [req EXCEPT ![r] =
                    IF isNaN(eventId) \/ isNaN(slotIndex) THEN Respond(rec, 400, NoRow)
                    ELSE IF ~Truthy(id_student) THEN Respond(rec, 400, NoRow)
                    ELSE IF res.error # "none" THEN Respond(rec, 404, NoRow)
                    ELSE IF slotNotFound(ev, k) THEN Respond(rec, 404, NoRow)
                    ELSE IF k < 0
                         THEN Respond([rec EXCEPT !.logged = @ \cup {"exception"}],
                                      500, NoRow)
                    ELSE [rec EXCEPT !.pc = "unregwrite",
                                     !.pending = [ev.slots.v EXCEPT ![k + 1] =
                                                    [@ EXCEPT !.user = Null]]]]
    /\ UNCHANGED <<event, event_student, nextEventId, nextEsId>>

delete_slots_unregister_Read(r, eventId, slotIndex, id_student, fault) ==
    /\ Free(r)
    /\ LET rec == slotRequest("DELETE /events/:eventId/slots/:slotIndex/unregister",
                              eventId, slotIndex, id_student)
           res == single({e \in event : e.id = rec.id}, fault)
           ev == TheRow(res.rows)
           k == slotIndex.v
       IN req' = [req EXCEPT ![r] =
                    IF isNaN(eventId) \/ isNaN(slotIndex) THEN Respond(rec, 400, NoRow)
                    ELSE IF ~Truthy(id_student) THEN Respond(rec, 400, NoRow)
                    ELSE IF res.error # "none" THEN Respond(rec, 404, NoRow)
                    ELSE IF slotNotFound(ev, k) THEN Respond(rec, 404, NoRow)
                    ELSE IF k < 0
                         THEN Respond([rec EXCEPT !.logged = @ \cup {"exception"}],
                                      500, NoRow)
                    ELSE IF ev.slots.v[k + 1].user # id_student
                         THEN Respond(rec, 403, NoRow)
                    ELSE [rec EXCEPT !.pc = "unregwrite",
                                     !.pending = [ev.slots.v EXCEPT ![k + 1] =
                                                    [@ EXCEPT !.user = Null]]]]
    /\ UNCHANGED <<event, event_student, nextEventId, nextEsId>>

delete_slots_unregister_Write(r, fault) ==
    /\ req[r].pc = "unregwrite"
    /\ LET rec == req[r]
           res == single({e \in event : e.id = rec.id}, fault)
       IN IF res.error # "none"
          THEN /\ req' = [req EXCEPT ![r] =
                            Respond([rec EXCEPT !.logged = @ \cup {"update"}],
                                    500, NoRow)]
               /\ UNCHANGED event
          ELSE /\ event' = (event \ res.rows) \cup
                              {[TheRow(res.rows) EXCEPT !.slots = Arr(rec.pending)]}
               /\ req' = [req EXCEPT ![r] =
                            Respond([rec EXCEPT !.wrote = @ \cup {"event"}],
                                    200, slotsResponse(rec))]
    /\ UNCHANGED <<event_student, nextEventId, nextEsId>>

(***************************************************************************)
(* Requests                                                                *)
(***************************************************************************)
Title1 == "Sprint review"
Title2 == "Kick-off"

createBody(title, datetime, tp, location, slot_duration, amu, slots) ==
    [title |-> title,
     event_datetime |-> datetime,
     duration_minutes |-> Num(60),
     event_type |-> Str("keynote"),
     id_creator |-> Str(Creator),
     location |-> location,
     slot_duration |-> slot_duration,
     allow_multiple_users |-> amu,
     target_promotions |-> tp,
     slots |-> slots]

patchBody(title, datetime, tp, slot_duration) ==
    [title |-> title,
     event_datetime |-> datetime,
     duration_minutes |-> Undef,
     event_type |-> Undef,
     location |-> Undef,
     slot_duration |-> slot_duration,
     allow_multiple_users |-> Undef,
     target_promotions |-> tp,
     slots |-> Undef]

(***************************************************************************)
(* Assignments: one event at a time (a single title and datetime), every   *)
(* kind of target_promotions, failing store and profile-service calls;     *)
(* requests are handled one after the other                                *)
(***************************************************************************)
AssignTargets ==
    {Null, Arr(<<>>), Arr(<<"p1">>), Arr(<<"p1", "p2">>), Str("p1"), Num(7)}

AssignCreateBodies ==
    {createBody(Str(Title1), Str(DateOk1), tp, Undef, Undef, Undef, Undef) :
        tp \in AssignTargets}

AssignPatchBodies ==
    {patchBody(Undef, Undef, tp, Undef) :
        tp \in {Null, Arr(<<>>), Arr(<<"p1">>), Arr(<<"p2">>)}}
    \cup {patchBody(Undef, Undef, Undef, Num(45))}

NextAssign ==
    \E r \in {1}, fault \in BOOLEAN :
        \/ \E b \in AssignCreateBodies : post_events_Check(r, b, fault)
        \/ post_events_Insert(r, fault)
        \/ \E fa \in BOOLEAN, fc \in SUBSET Promotions, fp \in SUBSET Profiles :
               assignStudentsToEvent_Fetch(r, fa, fc, fp)
        \/ assignStudentsToEvent_Check(r, fault)
        \/ assignStudentsToEvent_Insert(r, fault)
        \/ \E id \in 1..MaxEventId, b \in AssignPatchBodies :
               patch_events_Check(r, id, b, fault)
        \/ patch_events_Update(r, fault)
        \/ patch_events_DeleteOld(r, fault)

SpecAssign == Init /\ [][NextAssign]_vars

(***************************************************************************)
(* Events: two titles and two datetimes, targets that resolve to no        *)
(* student, a working store; requests are handled one after the other      *)
(***************************************************************************)
EventsCreateBodies ==
    {createBody(Str(t), Str(d), Arr(<<"p0">>), Undef, Undef, Undef, Undef) :
        t \in {Title1, Title2}, d \in {DateOk1, DateOk2}}

EventsPatchBodies ==
    {patchBody(t, d, Undef, Undef) :
        t \in {Undef, Str(Title1), Str(Title2)},
        d \in {Undef, Str(DateOk1), Str(DateOk2)}}

NextEvents ==
    \E r \in {1} :
        \/ \E b \in EventsCreateBodies : post_events_Check(r, b, FALSE)
        \/ post_events_Insert(r, FALSE)
        \/ assignStudentsToEvent_Fetch(r, FALSE, {}, {})
        \/ \E id \in 1..MaxEventId, b \in EventsPatchBodies :
               patch_events_Check(r, id, b, FALSE)
        \/ patch_events_Update(r, FALSE)

SpecEvents == Init /\ [][NextEvents]_vars

(***************************************************************************)
(* Fields: one event, every combination of the optional columns, then      *)
(* reads of it; a request starts when no other one is in flight            *)
(***************************************************************************)
\* a slot nobody has taken
FreeSlot == [maxUsers |-> 1, currentUsers |-> 0, user |-> Null]

FieldsCreateBodies ==
    {createBody(Str(Title1), Str(DateOk1), Arr(<<"p0">>), o[1], o[2], o[3], o[4]) :
        o \in {<<Undef, Undef, Undef, Undef>>,
               <<Str("B12"), Num(45), Bool(TRUE), Arr(<<FreeSlot>>)>>,
               <<Str(""), Undef, Bool(FALSE), Undef>>,
               <<Null, Num(0), Undef, Arr(<<>>)>>,
               <<Undef, Num(45), Undef, Null>>}}

NoneInFlight == \A q \in Req : Free(q)

NextFields ==
    \E r \in Req :
        \/ /\ NoneInFlight
           /\ \E b \in FieldsCreateBodies : post_events_Check(r, b, FALSE)
        \/ post_events_Insert(r, FALSE)
        \/ assignStudentsToEvent_Fetch(r, FALSE, {}, {})
        \/ /\ NoneInFlight
           /\ \E id \in 1..MaxEventId : get_events_id(r, id, FALSE)

SpecFields == Init /\ [][NextFields]_vars

(***************************************************************************)
(* Deletion: events with one assigned student, direct assignments and      *)
(* deletes with a failing store; two requests are in flight at a time      *)
(***************************************************************************)
DeleteParams == {Num(1), Num(2), Str("abc")}

NextDelete ==
    \E r \in {1, 2} :
        \/ post_events_Check(r, createBody(Str(Title1), Str(DateOk1), Arr(<<"p1">>),
                                           Undef, Undef, Undef, Undef), FALSE)
        \/ post_events_Insert(r, FALSE)
        \/ assignStudentsToEvent_Fetch(r, FALSE, {}, {})
        \/ assignStudentsToEvent_Check(r, FALSE)
        \/ assignStudentsToEvent_Insert(r, FALSE)
        \/ post_event_students_Check(r, [id_event |-> 1, id_student |-> Student2],
                                     FALSE)
        \/ post_event_students_Insert(r, FALSE)
        \/ \E param \in DeleteParams, fault \in BOOLEAN :
               delete_events_Students(r, param, fault)
        \/ \E fault \in BOOLEAN : delete_events_Event(r, fault)

SpecDelete == Init /\ [][NextDelete]_vars

(***************************************************************************)
(* Slots: one event created with a list of slots, then register and        *)
(* unregister requests of two students with every kind of index, handled   *)
(* one after the other; the update of the slots can fail                   *)
(***************************************************************************)
HeldSlot == [maxUsers |-> 2, currentUsers |-> 1, user |-> Str(Student1)]
CountedSlot == [maxUsers |-> 1, currentUsers |-> 1, user |-> Null]

SlotsCreateBodies ==
    {createBody(Str(Title1), Str(DateOk1), Arr(<<"p0">>), Undef, Undef, o[1], o[2]) :
        o \in {<<Undef, Arr(<<FreeSlot, FreeSlot>>)>>,
               <<Bool(TRUE), Arr(<<HeldSlot, FreeSlot>>)>>,
               <<Undef, Arr(<<CountedSlot, FreeSlot>>)>>,
               <<Undef, Undef>>}}

SlotEventIds == {Num(1), Num(2), Str("abc")}
SlotIndexes == {Num(-1), Num(0), Num(1), Num(2), Str("x")}
SlotStudents == {Str(Student1), Str(Student2), Undef}

NextSlots ==
    \E r \in {1} :
        \/ \E b \in SlotsCreateBodies : post_events_Check(r, b, FALSE)
        \/ post_events_Insert(r, FALSE)
        \/ assignStudentsToEvent_Fetch(r, FALSE, {}, {})
        \/ \E e \in SlotEventIds, k \in SlotIndexes, st \in SlotStudents :
               post_slots_register_Read(r, e, k, st, FALSE)
        \/ \E fault \in BOOLEAN : post_slots_register_Write(r, fault)
        \/ \E e \in SlotEventIds, k \in SlotIndexes, st \in SlotStudents :
               delete_slots_unregister_Read(r, e, k, st, FALSE)
        \/ \E fault \in BOOLEAN : delete_slots_unregister_Write(r, fault)

SpecSlots == Init /\ [][NextSlots]_vars

(***************************************************************************)
(* Booking: an event with two free slots, register and unregister requests *)
(* of two students, two requests in flight at a time                       *)
(***************************************************************************)
BookingBody ==
    createBody(Str(Title1), Str(DateOk1), Arr(<<"p0">>), Undef, Undef, Undef,
               Arr(<<FreeSlot, FreeSlot>>))

NextBooking ==
    \E r \in {1, 2} :
        \/ post_events_Check(r, BookingBody, FALSE)
        \/ post_events_Insert(r, FALSE)
        \/ assignStudentsToEvent_Fetch(r, FALSE, {}, {})
        \/ \E k \in {Num(0), Num(1)}, st \in {Str(Student1), Str(Student2)} :
               post_slots_register_Read(r, Num(1), k, st, FALSE)
        \/ post_slots_register_Write(r, FALSE)
        \/ \E k \in {Num(0), Num(1)}, st \in {Str(Student1), Str(Student2)} :
               delete_slots_unregister_Read(r, Num(1), k, st, FALSE)
        \/ delete_slots_unregister_Write(r, FALSE)

SpecBooking == Init /\ [][NextBooking]_vars

(***************************************************************************)
(* Register race: the same event, register requests only, two in flight    *)
(***************************************************************************)
NextRegisterRace ==
    \E r \in {1, 2} :
        \/ post_events_Check(r, BookingBody, FALSE)
        \/ post_events_Insert(r, FALSE)
        \/ assignStudentsToEvent_Fetch(r, FALSE, {}, {})
        \/ \E k \in {Num(0), Num(1)}, st \in {Str(Student1), Str(Student2)} :
               post_slots_register_Read(r, Num(1), k, st, FALSE)
        \/ post_slots_register_Write(r, FALSE)

SpecRegisterRace == Init /\ [][NextRegisterRace]_vars

(***************************************************************************)
(* Pairs: events whose promotions share a student, then direct             *)
(* assignments of well-formed and malformed pairs, handled one after the   *)
(* other with a working store                                              *)
(***************************************************************************)
PairsCreateBodies ==
    {createBody(Str(Title1), Str(d), tp, Undef, Undef, Undef, Undef) :
        d \in {DateOk1, DateOk2}, tp \in {Arr(<<"p1">>), Arr(<<"p1", "p2">>)}}

PairsBodies ==
    {[id_event |-> e, id_student |-> st] :
        e \in {0, 1, 2}, st \in {"", Student1, Student2, BadUuid}}

NextPairs ==
    \E r \in {1} :
        \/ \E b \in PairsCreateBodies : post_events_Check(r, b, FALSE)
        \/ post_events_Insert(r, FALSE)
        \/ assignStudentsToEvent_Fetch(r, FALSE, {}, {})
        \/ assignStudentsToEvent_Check(r, FALSE)
        \/ assignStudentsToEvent_Insert(r, FALSE)
        \/ \E b \in PairsBodies : post_event_students_Check(r, b, FALSE)
        \/ post_event_students_Insert(r, FALSE)

SpecPairs == Init /\ [][NextPairs]_vars

(***************************************************************************)
(* Pair updates: the same events, then updates of assignment rows with     *)
(* every combination of the two fields, handled one after the other with a *)
(* working store                                                           *)
(***************************************************************************)
NextPairUpdate ==
    \E r \in {1} :
        \/ \E b \in PairsCreateBodies : post_events_Check(r, b, FALSE)
        \/ post_events_Insert(r, FALSE)
        \/ assignStudentsToEvent_Fetch(r, FALSE, {}, {})
        \/ assignStudentsToEvent_Check(r, FALSE)
        \/ assignStudentsToEvent_Insert(r, FALSE)
        \/ \E id \in 1..MaxEsId, b \in PairsBodies :
               patch_event_students_Event(r, id, b, FALSE)
        \/ patch_event_students_Current(r, FALSE)
        \/ patch_event_students_Duplicate(r, FALSE)
        \/ patch_event_students_Update(r, FALSE)

SpecPairUpdate == Init /\ [][NextPairUpdate]_vars

(***************************************************************************)
(* Cohorts: events for one or two promotions in either order while the     *)
(* profile service fails for any of them, handled one after the other with *)
(* a working store                                                         *)
(***************************************************************************)
CohortsCreateBodies ==
    {createBody(Str(t), Str(DateOk1), Arr(tp), Undef, Undef, Undef, Undef) :
        t \in {Title1, Title2},
        tp \in {<<"p1">>, <<"p2">>, <<"p1", "p2">>, <<"p2", "p1">>}}

NextCohorts ==
    \E r \in {1} :
        \/ \E b \in CohortsCreateBodies : post_events_Check(r, b, FALSE)
        \/ post_events_Insert(r, FALSE)
        \/ \E fc \in SUBSET Promotions : assignStudentsToEvent_Fetch(r, FALSE, fc, {})
        \/ assignStudentsToEvent_Check(r, FALSE)
        \/ assignStudentsToEvent_Insert(r, FALSE)

SpecCohorts == Init /\ [][NextCohorts]_vars

(***************************************************************************)
(* Validation: every writing endpoint with well-formed and malformed       *)
(* requests, handled one after the other with a working store              *)
(***************************************************************************)
ValidationCreateBodies ==
    {createBody(t, d, Arr(<<"p1">>), Undef, Undef, Undef, Arr(<<FreeSlot>>)) :
        t \in {Str(Title1), Undef}, d \in {Str(DateOk1), Str(DateBad)}}

ValidationPatchBodies ==
    {patchBody(Undef, Undef, Undef, Undef),
     patchBody(Undef, Str(DateBad), Undef, Undef),
     patchBody(Undef, Undef, Undef, Num(0)),
     patchBody(Undef, Undef, Undef, Num(45)),
     patchBody(Str(Title2), Undef, Arr(<<"p1">>), Num(0)),
     patchBody(Undef, Undef, Arr(<<"p1">>), Undef)}

ValidationPairs ==
    {[id_event |-> 1, id_student |-> Student2],
     [id_event |-> 1, id_student |-> BadUuid],
     [id_event |-> 0, id_student |-> Student2],
     [id_event |-> 0, id_student |-> ""]}

NextValidation ==
    \E r \in {1} :
        \/ \E b \in ValidationCreateBodies : post_events_Check(r, b, FALSE)
        \/ post_events_Insert(r, FALSE)
        \/ assignStudentsToEvent_Fetch(r, FALSE, {}, {})
        \/ assignStudentsToEvent_Check(r, FALSE)
        \/ assignStudentsToEvent_Insert(r, FALSE)
        \/ \E b \in ValidationPatchBodies : patch_events_Check(r, 1, b, FALSE)
        \/ patch_events_Update(r, FALSE)
        \/ patch_events_DeleteOld(r, FALSE)
        \/ \E param \in {Num(1), Str("abc")} : delete_events_Students(r, param, FALSE)
        \/ delete_events_Event(r, FALSE)
        \/ \E e \in {Num(1), Str("abc")}, k \in {Num(0), Str("x")},
              st \in {Str(Student1), Undef} :
               \/ post_slots_register_Read(r, e, k, st, FALSE)
               \/ delete_slots_unregister_Read(r, e, k, st, FALSE)
        \/ post_slots_register_Write(r, FALSE)
        \/ delete_slots_unregister_Write(r, FALSE)
        \/ \E b \in ValidationPairs : post_event_students_Check(r, b, FALSE)
        \/ post_event_students_Insert(r, FALSE)
        \/ \E b \in ValidationPairs : patch_event_students_Event(r, 1, b, FALSE)
        \/ patch_event_students_Current(r, FALSE)
        \/ patch_event_students_Duplicate(r, FALSE)
        \/ patch_event_students_Update(r, FALSE)

SpecValidation == Init /\ [][NextValidation]_vars

(***************************************************************************)
(* Partial updates: two events with a slot, updates of one field at a      *)
(* time, handled one after the other with a working store                  *)
(***************************************************************************)
PartialCreateBodies ==
    {createBody(Str(t), Str(DateOk1), Arr(<<"p0">>), Str("B12"), Num(45), Bool(TRUE),
                Arr(<<FreeSlot>>)) : t \in {Title1, Title2}}

PartialPatchBodies ==
    {patchBody(Str("Retro"), Undef, Undef, Undef),
     patchBody(Undef, Str(DateOk2), Undef, Undef),
     patchBody(Undef, Undef, Arr(<<"p1">>), Undef),
     patchBody(Undef, Undef, Null, Undef),
     patchBody(Undef, Undef, Undef, Num(15))}

NextPartial ==
    \E r \in {1} :
        \/ \E b \in PartialCreateBodies : post_events_Check(r, b, FALSE)
        \/ post_events_Insert(r, FALSE)
        \/ assignStudentsToEvent_Fetch(r, FALSE, {}, {})
        \/ assignStudentsToEvent_Check(r, FALSE)
        \/ assignStudentsToEvent_Insert(r, FALSE)
        \/ \E id \in 1..2, b \in PartialPatchBodies : patch_events_Check(r, id, b, FALSE)
        \/ patch_events_Update(r, FALSE)
        \/ patch_events_DeleteOld(r, FALSE)

SpecPartial == Init /\ [][NextPartial]_vars

(***************************************************************************)
(* Durations: events created and updated with every kind of slot_duration, *)
(* handled one after the other with a working store                        *)
(***************************************************************************)
DurationsCreateBodies ==
    {createBody(Str(t), Str(DateOk1), Arr(<<"p0">>), Undef, sd, Undef, Undef) :
        t \in {Title1, Title2}, sd \in {Undef, Num(45), Num(0), Num(-5), Null}}

DurationsPatchBodies ==
    {patchBody(Undef, Undef, Undef, sd) : sd \in {Num(15), Num(0), Num(-5), Null}}

NextDurations ==
    \E r \in {1} :
        \/ \E b \in DurationsCreateBodies : post_events_Check(r, b, FALSE)
        \/ post_events_Insert(r, FALSE)
        \/ assignStudentsToEvent_Fetch(r, FALSE, {}, {})
        \/ \E id \in 1..2, b \in DurationsPatchBodies :
               patch_events_Check(r, id, b, FALSE)
        \/ patch_events_Update(r, FALSE)

SpecDurations == Init /\ [][NextDurations]_vars

(***************************************************************************)
(* Refusals: events with one slot, assignment rows for stored and unknown  *)
(* events, then requests that the handlers refuse, handled one after the   *)
(* other with a working store                                              *)
(***************************************************************************)
RefusalsCreateBodies ==
    {createBody(Str(t), Str(DateOk1), Arr(<<"p0">>), Undef, Undef, Undef,
                Arr(<<FreeSlot>>)) : t \in {Title1, Title2}}

RefusalsPatchBodies ==
    {patchBody(Str(Title2), Undef, Undef, Undef),
     patchBody(Undef, Undef, Undef, Num(45))}

RefusalsPairs ==
    {[id_event |-> e, id_student |-> Student1] : e \in {1, 2}}

RefusalsPairUpdates ==
    {[id_event |-> 0, id_student |-> Student1],
     [id_event |-> 2, id_student |-> ""]}

NextRefusals ==
    \E r \in {1} :
        \/ \E b \in RefusalsCreateBodies : post_events_Check(r, b, FALSE)
        \/ post_events_Insert(r, FALSE)
        \/ assignStudentsToEvent_Fetch(r, FALSE, {}, {})
        \/ \E id \in 1..2, b \in RefusalsPatchBodies :
               patch_events_Check(r, id, b, FALSE)
        \/ patch_events_Update(r, FALSE)
        \/ \E id \in 1..2 : delete_events_Students(r, Num(id), FALSE)
        \/ delete_events_Event(r, FALSE)
        \/ \E st \in {Str(Student1), Str(Student2)} :
               \/ post_slots_register_Read(r, Num(1), Num(0), st, FALSE)
               \/ delete_slots_unregister_Read(r, Num(1), Num(0), st, FALSE)
        \/ post_slots_register_Write(r, FALSE)
        \/ delete_slots_unregister_Write(r, FALSE)
        \/ \E b \in RefusalsPairs : post_event_students_Check(r, b, FALSE)
        \/ post_event_students_Insert(r, FALSE)
        \/ \E id \in 1..2, b \in RefusalsPairUpdates :
               patch_event_students_Event(r, id, b, FALSE)
        \/ patch_event_students_Current(r, FALSE)
        \/ patch_event_students_Duplicate(r, FALSE)
        \/ patch_event_students_Update(r, FALSE)

SpecRefusals == Init /\ [][NextRefusals]_vars

(***************************************************************************)
(* Authentication middleware, mounted before every router                  *)
(***************************************************************************)
JwtSecret == "jwt-secret"

\* the tokens in circulation: the key each was signed with, whether its exp
\* has passed, and the role in its payload
JwtClaims ==
    [tok \in {"jwt-student", "jwt-admin", "jwt-expired", "jwt-forged"} |->
        CASE tok = "jwt-student" ->
                 [key |-> JwtSecret, expired |-> FALSE, role |-> "student"]
          [] tok = "jwt-admin" ->
                 [key |-> JwtSecret, expired |-> FALSE, role |-> "admin"]
          [] tok = "jwt-expired" ->
                 [key |-> JwtSecret, expired |-> TRUE, role |-> "student"]
          [] tok = "jwt-forged" ->
                 [key |-> "another-key", expired |-> FALSE, role |-> "admin"]]

\* jwt.verify(token, secret): the payload, or an exception for a string that
\* is no token, a signature made with another key, or a passed exp
jwt_verify(token, secret) ==
    IF /\ token \in DOMAIN JwtClaims
       /\ JwtClaims[token].key = secret
       /\ ~JwtClaims[token].expired
    THEN [throws |-> FALSE, decoded |-> [role |-> JwtClaims[token].role]]
    ELSE [throws |-> TRUE, decoded |-> NoRow]

\* an Authorization header "Bearer <token>"
Bearer(tok) == [t |-> "string", v |-> "Bearer ", token |-> tok]

authRequest(cookie, authorization, userAgent, xTestMode, path, secret) ==
    [Idle EXCEPT !.op = "authMiddleware",
                 !.body = [cookies_token |-> cookie,
                           authorization |-> authorization,
                           user_agent |-> userAgent,
                           x_test_mode |-> xTestMode,
                           path |-> path,
                           JWT_SECRET |-> secret]]

\* a middleware that lets test clients through and falls back to the
\* Authorization header when the cookie is absent
authMiddleware_TestBypass(r, cookie, authorization, userAgent, xTestMode, path, secret) ==
    /\ Free(r) \/ req[r].pc = "next"
    /\ LET rec == authRequest(cookie, authorization, userAgent, xTestMode, path, secret)
           token == IF Truthy(cookie) THEN cookie
                    ELSE IF Truthy(authorization) /\ authorization.v = "Bearer "
                    THEN Str(authorization.token)
                    ELSE cookie
       IN req' = [req EXCEPT ![r] =
                    IF userAgent \in {"jest", "supertest"} \/ xTestMode = Str("true")
                    THEN [rec EXCEPT !.pc = "next"]
                    ELSE IF ~Truthy(token) THEN Respond(rec, 401, NoRow)
                    ELSE IF ~Truthy(secret) THEN Respond(rec, 500, NoRow)
                    ELSE LET res == jwt_verify(token.v, secret.v)
                         IN IF res.throws THEN Respond(rec, 401, NoRow)
                            ELSE IF path = "/api-docs" /\ res.decoded.role # "admin"
                            THEN Respond(rec, 403, NoRow)
                            ELSE [rec EXCEPT !.pc = "next",
                                             !.data = [user |-> res.decoded]]]
    /\ UNCHANGED <<event, event_student, nextEventId, nextEsId>>

\* pc = "next": next() was called and the request goes on to the routers
authMiddleware(r, cookie, authorization, userAgent, xTestMode, path, secret) ==
    /\ Free(r) \/ req[r].pc = "next"
    /\ LET rec == authRequest(cookie, authorization, userAgent, xTestMode, path, secret)
           token == cookie
       IN req' = [req EXCEPT ![r] =
                    IF ~Truthy(token) THEN Respond(rec, 401, NoRow)
                    ELSE IF ~Truthy(secret) THEN Respond(rec, 500, NoRow)
                    ELSE LET res == jwt_verify(token.v, secret.v)
                         IN IF res.throws THEN Respond(rec, 401, NoRow)
                            ELSE IF path = "/api-docs" /\ res.decoded.role # "admin"
                            THEN Respond(rec, 403, NoRow)
                            ELSE [rec EXCEPT !.pc = "next",
                                             !.data = [user |-> res.decoded]]]
    /\ UNCHANGED <<event, event_student, nextEventId, nextEsId>>

AuthCookies ==
    {Undef, Str(""), Str("not-a-token")} \cup {Str(tok) : tok \in DOMAIN JwtClaims}

AuthHeaders == {Undef, Bearer("jwt-student"), Bearer("jwt-forged")}

AuthSecrets == {Undef, Str(JwtSecret)}

NextAuth ==
    \E r \in {1} :
        \E cookie \in AuthCookies, authorization \in AuthHeaders,
           userAgent \in {"Mozilla/5.0", "supertest"},
           xTestMode \in {Undef, Str("true")},
           path \in {"/events", "/api-docs"}, secret \in AuthSecrets :
            authMiddleware(r, cookie, authorization, userAgent, xTestMode, path, secret)

SpecAuth == Init /\ [][NextAuth]_vars

(***************************************************************************)
(* The resolver called directly, run after run, with a reachable profile   *)
(* service and a working store; prev remembers the previous run's          *)
(* arguments and the table it left                                         *)
(***************************************************************************)
assignStudentsToEvent_Call(r, eventId, tp) ==
    /\ Free(r)
    /\ req' = [req EXCEPT ![r] =
                 [Idle EXCEPT !.op = "assignStudentsToEvent",
                              !.pc = "assign",
                              !.body = [target_promotions |-> tp],
                              !.data = [id |-> eventId],
                              !.prev = IF req[r].op = "assignStudentsToEvent"
                                       THEN [id |-> req[r].data.id,
                                             tp |-> req[r].body.target_promotions,
                                             table |-> event_student]
                                       ELSE NoRow]]
    /\ UNCHANGED <<event, event_student, nextEventId, nextEsId>>

ResolverTargets ==
    {Null, Arr(<<>>), Arr(<<"p1">>), Arr(<<"p2">>), Arr(<<"p1", "p1">>),
     Arr(<<"p1", "p2">>)}

NextResolver ==
    \E r \in {1} :
        \/ \E e \in 1..2, tp \in ResolverTargets :
               assignStudentsToEvent_Call(r, e, tp)
        \/ assignStudentsToEvent_Fetch(r, FALSE, {}, {})
        \/ assignStudentsToEvent_Check(r, FALSE)
        \/ assignStudentsToEvent_Insert(r, FALSE)

SpecResolver == Init /\ [][NextResolver]_vars

(***************************************************************************)
(* Properties of the assignments                                           *)
(***************************************************************************)
Range(seq) == {seq[k] : k \in 1..Len(seq)}

\* the students that have a row for event e
assigned(e) == {x.id_student : x \in {y \in event_student : y.id_event = e}}

Answered(r, op, code) ==
    req[r].op = op /\ req[r].pc = "done" /\ req[r].status = code

\* C1: no two event_student rows carry the same (id_event, id_student) pair.
C1_UniquePairs ==
    \A x, y \in event_student :
        (x.id_event = y.id_event /\ x.id_student = y.id_student) => x = y

\* C2: when the resolver has run a second time for the same event with the
\* same targetPromotions, the table equals the one the first run left and
\* holds no duplicate (event, student) row.
C2_SecondRunChangesNothing ==
    \A r \in Req :
        (/\ Answered(r, "assignStudentsToEvent", 0)
         /\ req[r].prev # NoRow
         /\ req[r].prev.id = req[r].data.id
         /\ req[r].prev.tp = req[r].body.target_promotions) =>
            /\ event_student = req[r].prev.table
            /\ C1_UniquePairs

\* C3: after a CreateEvent whose resolver logged no failure, a null
\* target_promotions has assigned every student of the active roster and an
\* empty list has assigned no one.
C3_NullIsAllEmptyIsNone ==
    \A r \in Req :
        (Answered(r, "POST /events", 201) /\ req[r].logged = {}) =>
            /\ req[r].body.target_promotions = Null =>
                   assigned(req[r].data.id) = {Student1, Student2}
            /\ req[r].body.target_promotions = Arr(<<>>) =>
                   assigned(req[r].data.id) = {}

C5_DuplicateTupleConflicts ==
    \A r \in Req :
        (/\ req[r].op = "POST /events"
         /\ \E e \in event : sameTuple(e, req[r].body) /\ e # req[r].data) =>
            /\ req[r].status = 409
            /\ req[r].wrote = {}

othersWithTitle(r) ==
    {e \in event : e.title = req[r].body.title /\ e.id # req[r].id}

defaultOf(f) ==
    CASE f = "slot_duration" -> Num(30)
      [] f = "allow_multiple_users" -> Bool(FALSE)
      [] f = "slots" -> Arr(<<>>)
      [] OTHER -> Null

\* C7 as stated: GetEvent after CreateEvent returns every submitted field as
\* submitted and the default for every omitted one.
C7_CreateThenGet ==
    \A r1, r2 \in Req :
        (/\ Answered(r1, "POST /events", 201)
         /\ Answered(r2, "GET /events/:id", 200)
         /\ req[r2].id = req[r1].data.id) =>
            \A f \in DOMAIN req[r1].body :
                req[r2].data[f] = IF req[r1].body[f] = Undef THEN defaultOf(f)
                                  ELSE req[r1].body[f]

\* the optional columns whose falsy values the insert replaces
falsyValues(f) ==
    CASE f = "location" -> {Undef, Null, Str("")}
      [] f = "slot_duration" -> {Undef, Null, Num(0)}
      [] f = "allow_multiple_users" -> {Undef, Null, Bool(FALSE)}
      [] f = "slots" -> {Undef, Null}
      [] OTHER -> {Undef}

\* C7 amended: the same, except that a falsy location, slot_duration,
\* allow_multiple_users or slots is returned as the default.
C7_CreateThenGetFalsyDefaulted ==
    \A r1, r2 \in Req :
        (/\ Answered(r1, "POST /events", 201)
         /\ Answered(r2, "GET /events/:id", 200)
         /\ req[r2].id = req[r1].data.id) =>
            \A f \in DOMAIN req[r1].body :
                req[r2].data[f] = IF req[r1].body[f] \in falsyValues(f)
                                  THEN defaultOf(f)
                                  ELSE req[r1].body[f]

\* a read of an event created with every optional column omitted
C7_Witness ==
    \E r1, r2 \in Req :
        /\ Answered(r1, "POST /events", 201)
        /\ Answered(r2, "GET /events/:id", 200)
        /\ req[r2].id = req[r1].data.id
        /\ req[r1].body.slot_duration = Undef
        /\ req[r1].body.allow_multiple_users = Undef
        /\ req[r1].body.slots = Undef
        /\ req[r2].data.slot_duration = Num(30)
        /\ req[r2].data.allow_multiple_users = Bool(FALSE)
        /\ req[r2].data.slots = Arr(<<>>)

(***************************************************************************)
(* Properties of DELETE /events/:id                                        *)
(***************************************************************************)
\* the step on which request r answers a DELETE /events/:id with code
deleteAnswers(r, code) ==
    /\ req[r].pc = "delevent"
    /\ req'[r].pc = "done"
    /\ req'[r].status = code

C10_DeleteMissingIsNotFound ==
    [][\A r \in Req :
          (/\ req[r].pc = "delevent"
           /\ req'[r].pc = "done"
           /\ ~\E e \in event : e.id = req[r].id) =>
              /\ req'[r].status \in {404, 500}
              /\ event' = event]_vars

\* a second delete of an id answered 404 after the first one answered 200
C10_Witness ==
    \E r, q \in Req :
        /\ r # q
        /\ Answered(r, "DELETE /events/:id", 200)
        /\ Answered(q, "DELETE /events/:id", 404)
        /\ req[q].id = req[r].id
        /\ "event" \notin req[q].wrote
        /\ ~\E e \in event : e.id = req[r].id

\* C11: a DeleteEvent whose cleanup of the EventStudent rows fails answers
\* 500 on that step and leaves the event table alone; the event row is only
\* ever deleted by a request whose cleanup succeeded.
C11_FailedCleanupKeepsEvent ==
    [][\A r \in Req :
          /\ (/\ req'[r] # req[r]
              /\ req'[r].op = "DELETE /events/:id"
              /\ req[r].pc # "delevent"
              /\ "event_student" \notin req'[r].wrote
              /\ req'[r].status # 400) =>
                 /\ req'[r].pc = "done"
                 /\ req'[r].status = 500
                 /\ event' = event
          /\ (req[r].pc = "delevent" /\ event' # event) =>
                 "event_student" \in req[r].wrote]_vars

\* a delete answered 500 that wrote nothing while its event is still stored
C11_Witness ==
    \E r \in Req :
        /\ Answered(r, "DELETE /events/:id", 500)
        /\ req[r].wrote = {}
        /\ \E e \in event : e.id = req[r].id

(***************************************************************************)
(* Properties of the slots                                                 *)
(***************************************************************************)
registerOp == "POST /events/:eventId/slots/:slotIndex/register"
unregisterOp == "DELETE /events/:eventId/slots/:slotIndex/unregister"

storedSlots(id) == (CHOOSE e \in event : e.id = id).slots.v
storedSlotsNext(id) == (CHOOSE e \in event' : e.id = id).slots.v

\* the step on which request r starts operation op with well-formed
\* parameters
slotStarts(r, op) ==
    /\ Free(r)
    /\ req'[r] # req[r]
    /\ req'[r].op = op
    /\ req'[r].body.slotIndex.t = "number"
    /\ req'[r].id # 0
    /\ Truthy(req'[r].body.id_student)

\* the index of the request started on this step names a slot of its event
slotExists(r) ==
    \E e \in event :
        /\ e.id = req'[r].id
        /\ e.slots.t = "array"
        /\ req'[r].body.slotIndex.v \in 0..(Len(e.slots.v) - 1)

\* the slot the request started on this step is about
targetSlot(r) == storedSlots(req'[r].id)[req'[r].body.slotIndex.v + 1]

\* the step on which request r, at stage pc, answers 200
slotAnswersOk(r, pc) ==
    /\ req[r].pc = pc
    /\ req'[r].pc = "done"
    /\ req'[r].status = 200

\* C12 as stated: a successful Register stores the slot with user =
\* studentId and currentUsers one higher, and returns the stored slot list.
C12_RegisterCounts ==
    [][\A r \in Req :
          slotAnswersOk(r, "regwrite") =>
              LET k == req[r].body.slotIndex.v + 1
                  before == storedSlots(req[r].id)[k]
                  after == storedSlotsNext(req[r].id)[k]
              IN /\ after.user = req[r].body.id_student
                 /\ after.currentUsers = before.currentUsers + 1
                 /\ req'[r].data.updated_slots = Arr(storedSlotsNext(req[r].id))]_vars

\* C13: a Register on a slot whose user is another student answers 409 and
\* leaves the event table as it was.
C13_TakenSlotConflicts ==
    [][\A r \in Req :
          (/\ slotStarts(r, registerOp)
           /\ slotExists(r)
           /\ targetSlot(r).user.t = "string"
           /\ targetSlot(r).user # req'[r].body.id_student) =>
              /\ req'[r].pc = "done"
              /\ req'[r].status = 409
              /\ event' = event]_vars

\* a register answered 409 while another student is the slot's user
C13_Witness ==
    \E r \in Req :
        /\ Answered(r, registerOp, 409)
        /\ \E e \in event :
              /\ e.id = req[r].id
              /\ LET u == e.slots.v[req[r].body.slotIndex.v + 1].user
                 IN u.t = "string" /\ u # req[r].body.id_student

\* C14 as stated: Register answers 409 when currentUsers has reached
\* maxUsers even if user is null, and goes on to the write when the event
\* allows multiple users, currentUsers < maxUsers and the student holds no
\* slot, even though the slot's user is set.
C14_CapacityModel ==
    [][\A r \in Req :
          (slotStarts(r, registerOp) /\ slotExists(r)) =>
              LET ev == CHOOSE e \in event : e.id = req'[r].id
                  slot == targetSlot(r)
              IN /\ slot.currentUsers >= slot.maxUsers => req'[r].status = 409
                 /\ (/\ ev.allow_multiple_users = Bool(TRUE)
                     /\ slot.currentUsers < slot.maxUsers
                     /\ ~hasSlot(ev, req'[r].body.id_student)) =>
                        req'[r].pc = "regwrite"]_vars

\* C15: no student is the user of two slots of an event.
C15_OneSlotPerStudent ==
    \A e \in event :
        \A j1, j2 \in 1..Len(e.slots.v) :
            (e.slots.v[j1].user.t = "string"
             /\ e.slots.v[j1].user = e.slots.v[j2].user) => j1 = j2

\* both registers of one student on two different slots were answered 200
\* and the student is the user of one slot
C15_Witness ==
    \E r, q \in Req :
        /\ Answered(r, registerOp, 200)
        /\ Answered(q, registerOp, 200)
        /\ req[r].id = req[q].id
        /\ req[r].body.id_student = req[q].body.id_student
        /\ req[r].body.slotIndex # req[q].body.slotIndex
        /\ \E e \in event :
              /\ e.id = req[r].id
              /\ Cardinality({j \in 1..Len(e.slots.v) :
                                 e.slots.v[j].user = req[r].body.id_student}) = 1

\* C16 as stated: Register and Unregister on an event that does not exist
\* or with an index that is no index of its slots answer 404 and change
\* nothing.
C16_NoSuchSlotIsNotFound ==
    [][\A r \in Req :
          (/\ slotStarts(r, registerOp) \/ slotStarts(r, unregisterOp)
           /\ ~slotExists(r)) =>
              /\ req'[r].pc = "done"
              /\ req'[r].status = 404
              /\ event' = event]_vars

\* C17: an Unregister by a student who is not the slot's user answers 403
\* and leaves the event table as it was.
C17_NonOccupantForbidden ==
    [][\A r \in Req :
          (/\ slotStarts(r, unregisterOp)
           /\ slotExists(r)
           /\ targetSlot(r).user # req'[r].body.id_student) =>
              /\ req'[r].pc = "done"
              /\ req'[r].status = 403
              /\ event' = event]_vars

\* an unregister answered 403 while another student is the slot's user
C17_Witness ==
    \E r \in Req :
        /\ Answered(r, unregisterOp, 403)
        /\ \E e \in event :
              /\ e.id = req[r].id
              /\ LET u == e.slots.v[req[r].body.slotIndex.v + 1].user
                 IN u.t = "string" /\ u # req[r].body.id_student

\* C18 as stated: a successful Unregister stores the slot with user = null
\* and currentUsers = max(0, currentUsers - 1) and leaves the other slots.
C18_UnregisterCounts ==
    [][\A r \in Req :
          slotAnswersOk(r, "unregwrite") =>
              LET k == req[r].body.slotIndex.v + 1
                  before == storedSlots(req[r].id)
                  after == storedSlotsNext(req[r].id)
              IN /\ after[k].user = Null
                 /\ after[k].currentUsers =
                        IF before[k].currentUsers > 0
                        THEN before[k].currentUsers - 1 ELSE 0
                 /\ Len(after) = Len(before)
                 /\ \A j \in 1..Len(before) : j # k => after[j] = before[j]]_vars

\* C19: a Register that has read its slot as free answers 200 and stores the
\* slot list it computed from that read, whatever was stored since.
C19_StaleWriteSucceeds ==
    [][\A r \in Req :
          (req[r].pc = "regwrite" /\ req'[r].pc = "done") =>
              /\ req'[r].status = 200
              /\ storedSlotsNext(req[r].id) = req[r].pending]_vars

\* two students were both answered 200 for the same slot, each with a slot
\* list that shows them as its user, and one of them is stored
C19_Witness ==
    \E r, q \in Req :
        /\ Answered(r, registerOp, 200)
        /\ Answered(q, registerOp, 200)
        /\ req[r].id = req[q].id
        /\ req[r].body.slotIndex = req[q].body.slotIndex
        /\ req[r].body.id_student # req[q].body.id_student
        /\ LET k == req[r].body.slotIndex.v + 1
           IN /\ req[r].data.updated_slots.v[k].user = req[r].body.id_student
              /\ req[q].data.updated_slots.v[k].user = req[q].body.id_student
              /\ storedSlots(req[r].id)[k].user = req[q].body.id_student

(***************************************************************************)
(* Properties of POST /event-students                                      *)
(***************************************************************************)
pairRows(b) ==
    {x \in event_student : x.id_event = b.id_event /\ x.id_student = b.id_student}

\* C20 as stated: a Create for a pair that has a row answers 409 and inserts
\* nothing; for a pair without a row and a valid UUID it inserts exactly one
\* row and answers 201 with it.
C20_CreatePair ==
    [][\A r \in Req :
          /\ (/\ Free(r)
              /\ req'[r] # req[r]
              /\ req'[r].op = "POST /event-students"
              /\ pairRows(req'[r].body) # {}) =>
                 /\ req'[r].pc = "done"
                 /\ req'[r].status = 409
                 /\ event_student' = event_student
          /\ (/\ req[r].op = "POST /event-students"
              /\ req[r].pc = "insert"
              /\ req'[r].pc = "done") =>
                 /\ pairRows(req[r].body) = {}
                 /\ req'[r].status = 201
                 /\ \E row \in event_student' \ event_student :
                       /\ event_student' = event_student \cup {row}
                       /\ row.id_event = req[r].body.id_event
                       /\ row.id_student = req[r].body.id_student
                       /\ req'[r].data = row]_vars

(***************************************************************************)
(* Properties of PATCH /event-students/:id                                 *)
(***************************************************************************)
\* the rows other than the updated one that carry the pair the update of
\* request r would give its row
otherRowsWithPair(r) ==
    LET cur == CHOOSE x \in event_student : x.id = req[r].id
        st == IF req[r].body.id_student # "" THEN req[r].body.id_student
              ELSE cur.id_student
        ev == IF req[r].body.id_event # 0 THEN req[r].body.id_event
              ELSE cur.id_event
    IN {x \in event_student :
           x.id # req[r].id /\ x.id_student = st /\ x.id_event = ev}

\* C21 as stated: the update answers 409 and changes nothing when the
\* effective pair belongs to a different row, and goes on to succeed (200)
\* when it belongs to no other row.
C21_EffectivePair ==
    [][\A r \in Req :
          /\ (req[r].pc = "dup" /\ otherRowsWithPair(r) # {}) =>
                 /\ req'[r].pc = "done"
                 /\ req'[r].status = 409
                 /\ event_student' = event_student
          /\ (req[r].pc = "dup" /\ otherRowsWithPair(r) = {}) =>
                 req'[r].pc = "esupdate"
          /\ (req[r].pc = "esupdate" /\ req'[r].pc = "done") =>
                 req'[r].status = 200]_vars

(***************************************************************************)
(* Properties of the resolver's rosters                                    *)
(***************************************************************************)
\* the identities of the students of promotion p
rosterIdentities(p) ==
    {IF PromotionRoster(p)[k].id_user # "" THEN PromotionRoster(p)[k].id_user
     ELSE ProfileData(PromotionRoster(p)[k].id_user_profile).id_user :
        k \in 1..Len(PromotionRoster(p))}

\* C22: after a CreateEvent for a list of promotions, the students assigned
\* to the event are exactly the students of the promotions whose roster
\* could be fetched.
C22_CohortFailureIsolated ==
    \A r \in Req :
        (/\ Answered(r, "POST /events", 201)
         /\ req[r].body.target_promotions.t = "array"
         /\ Len(req[r].body.target_promotions.v) > 0) =>
            assigned(req[r].data.id) =
                UNION {rosterIdentities(p) :
                          p \in Range(req[r].body.target_promotions.v) \ req[r].logged}

\* an event for p2 and p1 whose p2 roster could not be fetched has the
\* student of p1 and no other
C22_Witness ==
    \E r \in Req :
        /\ Answered(r, "POST /events", 201)
        /\ req[r].body.target_promotions = Arr(<<"p2", "p1">>)
        /\ "p2" \in req[r].logged
        /\ "p1" \notin req[r].logged
        /\ assigned(req[r].data.id) = {Student1}

(***************************************************************************)
(* Frame properties                                                        *)
(***************************************************************************)
\* C23: a request answered 400 has issued no write statement and the step
\* that answers it leaves both tables as they were.
C23_ValidationBeforeWrites ==
    [][\A r \in Req :
          (req'[r] # req[r] /\ req'[r].pc = "done" /\ req'[r].status = 400) =>
              /\ req'[r].wrote = {}
              /\ event' = event
              /\ event_student' = event_student]_vars

\* a delete with a malformed id was answered 400 while events and
\* assignments are stored
C23_Witness ==
    \E r \in Req :
        /\ Answered(r, "DELETE /events/:id", 400)
        /\ req[r].wrote = {}
        /\ event # {}
        /\ event_student # {}

\* C24 as stated: a CreateEvent for p1 and p2, which share a student, ends
\* with exactly one row for that student and a row for the other student.
C24_SharedStudentOnce ==
    \A r \in Req :
        (/\ Answered(r, "POST /events", 201)
         /\ req[r].body.target_promotions \in {Arr(<<"p1", "p2">>), Arr(<<"p2", "p1">>)}
         /\ req[r].logged = {}) =>
            /\ Cardinality({x \in event_student :
                              /\ x.id_event = req[r].data.id
                              /\ x.id_student = Student1}) = 1
            /\ Student2 \in assigned(req[r].data.id)

\* C25: the update statement of an UpdateEvent changes one event row, in it
\* only columns that the body carries, and the rest of the request changes
\* no event row.
C25_PartialUpdate ==
    [][\A r \in Req :
          /\ (/\ req[r].op = "PATCH /events/:id"
              /\ req[r].pc = "update"
              /\ req'[r].status \notin {404, 500}) =>
                 \E old \in event, new \in event' :
                     /\ old.id = req[r].id
                     /\ new.id = old.id
                     /\ event' \ {new} = event \ {old}
                     /\ \A f \in DOMAIN req[r].body :
                           req[r].body[f] = Undef => new[f] = old[f]
          /\ (/\ req[r].op = "PATCH /events/:id"
              /\ req[r].pc # "update") => event' = event]_vars

\* an update of the datetime alone was answered 200 and the event kept its
\* location, slot_duration, slots and target_promotions
C25_Witness ==
    \E r \in Req :
        /\ Answered(r, "PATCH /events/:id", 200)
        /\ req[r].body.event_datetime = Str(DateOk2)
        /\ \E e \in event :
              /\ e.id = req[r].id
              /\ e.event_datetime = Str(DateOk2)
              /\ e.location = Str("B12")
              /\ e.slot_duration = Num(45)
              /\ e.slots = Arr(<<FreeSlot>>)
              /\ e.target_promotions = Arr(<<"p0">>)

\* C26 as stated: every stored event's slot_duration is a positive integer.
C26_SlotDurationPositive ==
    \A e \in event : e.slot_duration.t = "number" /\ e.slot_duration.v > 0

C28_BothRegistrationsStored ==
    \A r, q \in Req :
        ( /\ Answered(r, registerOp, 200)
          /\ Answered(q, registerOp, 200)
          /\ req[r].id = req[q].id
          /\ req[r].body.slotIndex # req[q].body.slotIndex
          /\ req[r].body.id_student # req[q].body.id_student )
        => /\ storedSlots(req[r].id)[req[r].body.slotIndex.v + 1].user
                  = req[r].body.id_student
           /\ storedSlots(req[q].id)[req[q].body.slotIndex.v + 1].user
                  = req[q].body.id_student

carriedTokens(r) ==
    LET b == req[r].body
    IN (IF b.cookies_token.t = "string" /\ b.cookies_token.v # ""
        THEN {b.cookies_token.v} ELSE {})
       \cup (IF b.authorization.t = "string" THEN {b.authorization.token} ELSE {})

\* the request carries a token that verifies against JWT_SECRET
carriesValidToken(r) ==
    /\ req[r].body.JWT_SECRET.t = "string"
    /\ \E tok \in carriedTokens(r) :
           ~jwt_verify(tok, req[r].body.JWT_SECRET.v).throws

====
